---- MODULE Spec2Model ----
(***************************************************************************)
(* Model of the rate limiting reverse-proxy shim of src/main.go: the       *)
(* registry RateLimiters (a mutex, a map from cookie token to              *)
(* *rate.Limiter), its background Flusher, and the request handler built   *)
(* by LimitMiddleware.                                                     *)
(*                                                                         *)
(* Time is counted in whole minutes (the limiter refills one token per     *)
(* minute).  A request body is a sequence of units: "{" and                *)
(* "}" are the braces of a JSON object, "0" and "5" stand for the members  *)
(* "max_age":0 and "max_age":5, " " is JSON white space and "x" is a byte  *)
(* that no JSON value may hold.                                            *)
(*                                                                         *)
(* History variables (they record, and decide nothing): created, sent, the *)
(* field fresh of a handler, the field used of a limiter, and zeroSeen and *)
(* firstZero, which only the specification SpecConc records, acq, which    *)
(* only SpecBucket records, snap, which only SpecLive records, and epoch,  *)
(* which only SpecEpoch records.                                           *)
(***************************************************************************)
EXTENDS Integers, Sequences, FiniteSets, TLC

\* ------------------------------------------------------------------ bounds
NumHandlers == 2
MaxTime == 1
MaxChunk == 2

\* --------------------------------------------------------- program constants
Burst == 15
RatePerMinute == 1

RLPayload == "RLPayload"
NoCookieMsg == "No cookie found"
ParseErrMsg == "Error parsing request body"
NoBody == "none"
JSONType == "application/json"
DefaultType == "default"

\* ------------------------------------------------------------------ inputs
Handlers == 1..NumHandlers
Tokens == {"a", "b"}
NoCookie == "no cookie"
Cookies == Tokens \cup {NoCookie}
Bodies ==
  { <<>>,
    <<" ">>,
    <<"x">>,
    <<"{", "5">>,
    <<"{", "}">>,
    <<"{", "0", "}">>,
    <<"{", "5", "}">>,
    <<"{", "5", "}", "x">> }
Chunks == 1..MaxChunk

Unlocked == 0
FlusherId == NumHandlers + 1
NoLim == 0
Inst == 1..(Cardinality(Tokens) + NumHandlers)

VARIABLES
  now,       \* the clock, in minutes
  mu,        \* rl.mu: Unlocked, or the task that locked it last
  limiters,  \* rl.limiters: token -> limiter instance, NoLim when absent
  heap,      \* the rate.Limiter instances: tokens and time of last update
  hs,        \* per handler goroutine: its position and its locals
  fpc,       \* position of the Flusher goroutine
  last,      \* the most recently completed exchange, as client and upstream saw it
  created,   \* history: limiters created per token since the last flush
  zeroSeen,  \* history: tokens whose max_age == 0 request has started since the last flush
  firstZero, \* history: handlers serving the first such request of their token
  sent,      \* the end-to-end client: requests sent so far
  acq,       \* history: the acquisitions made on the limiter created last
  snap,      \* history: the map as the holder of the mutex found it
  epoch      \* history: the max_age == 0 requests forwarded since the last flush

vars == <<now, mu, limiters, heap, hs, fpc, last, created, zeroSeen, firstZero, sent,
          acq, snap, epoch>>

Min(x, y) == IF x <= y THEN x ELSE y

\* ------------------------------------------------ json.Decoder over a TeeReader
\* Decode pulls the body through the TeeReader one Read of at most n units at a
\* time, and only when it has scanned all it has read; it stops reading at the
\* unit that completes the first JSON value.  `read` counts the units that went
\* through the TeeReader into the buffer b.
\* faulty variant: a body that ends before a value is complete is taken as {}
DecodeEOFAccepted(read) == [err |-> FALSE, maxAge |-> 0, read |-> read]
\* faulty variant: a unit that no JSON value may hold ends the value as {}
DecodeSyntaxAccepted(read) == [err |-> FALSE, maxAge |-> 0, read |-> read]
DecodeEOF(read) == [err |-> TRUE, maxAge |-> 0, read |-> read]
DecodeSyntax(read) == [err |-> TRUE, maxAge |-> 0, read |-> read]
DecodeValue(val, read) == [err |-> FALSE, maxAge |-> val, read |-> read]
MemberValue(c) == IF c = "5" THEN 5 ELSE 0

RECURSIVE Scan(_, _, _, _, _, _)
Scan(body, n, pos, read, st, val) ==
  IF pos > read
  THEN IF read = Len(body)
       THEN DecodeEOF(read)
       ELSE Scan(body, n, pos, Min(Len(body), read + n), st, val)
  ELSE LET c == body[pos] IN
       CASE c = " " -> Scan(body, n, pos + 1, read, st, val)
         [] st = "begin" /\ c = "{" -> Scan(body, n, pos + 1, read, "object", val)
         [] st = "object" /\ c \in {"0", "5"} ->
              Scan(body, n, pos + 1, read, "member", MemberValue(c))
         [] st \in {"object", "member"} /\ c = "}" -> DecodeValue(val, read)
         [] OTHER -> DecodeSyntax(read)

Decode(body, n) == Scan(body, n, 1, 0, "begin", 0)

\* --------------------------------------------------------------- rate.Limiter
\* faulty variant: the refill is not capped at the burst
AdvanceUncapped(l, t) == l.tokens + (t - l.last) * RatePerMinute
\* faulty variant: the last token is never handed out
AllowOKStrict(l, t) == Min(Burst, l.tokens + (t - l.last) * RatePerMinute) > 1
\* A limiter made by rate.NewLimiter(rate.Every(time.Minute), burst) admits its
\* first `burst` acquisitions at once: it starts with a full bucket.
FreeCell == [tokens |-> 0, last |-> 0, used |-> FALSE]
\* faulty variant: the bucket starts with one token more than the burst
NewLimiterOverfull(t) == [tokens |-> Burst + 1, last |-> t, used |-> FALSE]
NewLimiter(t) == [tokens |-> Burst, last |-> t, used |-> FALSE]
Advance(l, t) == Min(Burst, l.tokens + (t - l.last) * RatePerMinute)
AllowOK(l, t) == Advance(l, t) >= 1
\* faulty variant: a denied acquisition takes a token as well
AllowStateOverdraw(l, t) ==
  [tokens |-> Min(Burst, l.tokens + (t - l.last) * RatePerMinute) - 1,
   last |-> t, used |-> TRUE]
AllowState(l, t) ==
  IF AllowOK(l, t)
  THEN [tokens |-> Advance(l, t) - 1, last |-> t, used |-> TRUE]
  ELSE [l EXCEPT !.used = TRUE]

\* ------------------------------------------------------------------- the heap
Referenced(i, m, h) ==
  \/ \E t \in Tokens : m[t] = i
  \/ \E x \in Handlers : h[x].lim = i
\* Limiters that neither the map nor a handler refers to are garbage.
Collect(hp, m, h) ==
  [i \in Inst |-> IF Referenced(i, m, h) THEN hp[i] ELSE FreeCell]
FreshInst == CHOOSE i \in Inst : ~Referenced(i, limiters, hs)
                                 /\ \A j \in Inst : j < i => Referenced(j, limiters, hs)

\* -------------------------------------------------------------- the exchange
IdleH == [pc |-> "idle", remToken |-> NoCookie, body |-> <<>>, b |-> <<>>,
          maxAge |-> 0, lim |-> NoLim, fresh |-> FALSE]
NoExchange == [cookie |-> FALSE, parsed |-> FALSE, maxAge |-> 0,
               allowed |-> FALSE, resp |-> NoBody, ctype |-> DefaultType,
               forwarded |-> FALSE, fwdBody |-> <<>>]

\* faulty variant: the return after the write is missing, and the request goes on
MissingCookieForwards ==
  [NoExchange EXCEPT !.resp = NoCookieMsg, !.forwarded = TRUE]
\* w.Write([]byte("No cookie found")); return
MissingCookieReply ==
  [NoExchange EXCEPT !.resp = NoCookieMsg]
\* w.Write([]byte("Error parsing request body" + err.Error())); return
ParseErrorReply ==
  [NoExchange EXCEPT !.cookie = TRUE, !.resp = ParseErrMsg]
\* faulty variant: the override is not consulted
RejectedWhenDenied(allowed, maxAge) == ~allowed
\* faulty variant: || for &&
RejectedEither(allowed, maxAge) == ~allowed \/ maxAge = 0
\* !Allow() && MaxAge == 0
Rejected(allowed, maxAge) == ~allowed /\ maxAge = 0
\* faulty variant: the return after the rate-limit payload is missing
ReplyNoReturn(maxAge, allowed, b) ==
  IF ~allowed /\ maxAge = 0
  THEN [NoExchange EXCEPT !.cookie = TRUE, !.parsed = TRUE, !.maxAge = maxAge,
                          !.allowed = allowed, !.resp = RLPayload, !.ctype = JSONType,
                          !.forwarded = TRUE, !.fwdBody = b]
  ELSE [NoExchange EXCEPT !.cookie = TRUE, !.parsed = TRUE, !.maxAge = maxAge,
                          !.allowed = allowed, !.forwarded = TRUE, !.fwdBody = b]
\* the rate-limit payload, or next.ServeHTTP with r.Body = io.NopCloser(&b)
Reply(maxAge, allowed, b) ==
  IF Rejected(allowed, maxAge)
  THEN [NoExchange EXCEPT !.cookie = TRUE, !.parsed = TRUE, !.maxAge = maxAge,
                          !.allowed = allowed, !.resp = RLPayload, !.ctype = JSONType]
  ELSE [NoExchange EXCEPT !.cookie = TRUE, !.parsed = TRUE, !.maxAge = maxAge,
                          !.allowed = allowed, !.forwarded = TRUE, !.fwdBody = b]

EmptyMap == [t \in Tokens |-> NoLim]

\* The history variables before anything has happened.
NoAcq == [born |-> 0, tried |-> 0, won |-> [s \in 0..MaxTime |-> 0]]
NoEpoch == [start |-> 0, fwd |-> [t \in Tokens |-> 0], stale |-> [t \in Tokens |-> 0]]

Init ==
  /\ now = 0
  /\ mu = Unlocked
  /\ limiters = EmptyMap
  /\ heap = [i \in Inst |-> FreeCell]
  /\ hs = [h \in Handlers |-> IdleH]
  /\ fpc = "wait"
  /\ last = NoExchange
  /\ created = [t \in Tokens |-> 0]
  /\ zeroSeen = [t \in Tokens |-> TRUE]
  /\ firstZero = [h \in Handlers |-> FALSE]
  /\ sent = 0
  /\ acq = NoAcq
  /\ snap = EmptyMap
  /\ epoch = NoEpoch

\* A request arrives: the cookie check and the decoding of the body, which touch
\* nothing shared (lines 73-91).
Start(h, c, body, n) ==
  /\ hs[h].pc = "idle"
  /\ LET d == Decode(body, n) IN
     IF c = NoCookie
     THEN /\ last' = MissingCookieReply
          /\ UNCHANGED hs
     ELSE IF d.err
     THEN /\ last' = ParseErrorReply
          /\ UNCHANGED hs
     ELSE /\ hs' = [hs EXCEPT ![h] =
                      [pc |-> "getlimiter", remToken |-> c, body |-> body,
                       b |-> SubSeq(body, 1, d.read), maxAge |-> d.maxAge,
                       lim |-> NoLim, fresh |-> FALSE]]
          /\ UNCHANGED last
  /\ UNCHANGED <<now, mu, limiters, heap, fpc, created>>

\* faulty variant: no mutual exclusion
CanLockAlways(m) == TRUE
\* sync.Mutex: Lock returns once the mutex is unlocked
CanLock(m) == m = Unlocked

\* rl.mu.Lock() in GetLimiter
Lock(h) ==
  /\ hs[h].pc = "getlimiter"
  /\ CanLock(mu)
  /\ mu' = h
  /\ hs' = [hs EXCEPT ![h].pc = "locked"]
  /\ UNCHANGED <<now, limiters, heap, fpc, last, created, sent>>

\* faulty variant: one entry serves every token
LookupShared(m, tok) == m["a"]
\* faulty variant: the lookup never finds the entry
LookupMiss(m, tok) == NoLim
\* rl.limiters[token]
Lookup(m, tok) == m[tok]

\* if _, exists := rl.limiters[token]; exists { return rl.limiters[token] },
\* with the deferred rl.mu.Unlock()
GetLimiterFound(h) ==
  /\ hs[h].pc = "locked"
  /\ LET found == Lookup(limiters, hs[h].remToken) IN
     IF found # NoLim
     THEN /\ hs' = [hs EXCEPT ![h].pc = "allow", ![h].lim = found, ![h].fresh = TRUE]
          /\ mu' = Unlocked
     ELSE /\ hs' = [hs EXCEPT ![h].pc = "create"]
          /\ UNCHANGED mu
  /\ UNCHANGED <<now, limiters, heap, fpc, last, created, sent>>

\* lim := rate.NewLimiter(rl.rate, rl.burst); rl.limiters[token] = lim; return lim,
\* with the deferred rl.mu.Unlock()
GetLimiterCreate(h) ==
  /\ hs[h].pc = "create"
  /\ LET tok == hs[h].remToken
         lim == FreshInst IN
     /\ heap' = [heap EXCEPT ![lim] = NewLimiter(now)]
     /\ limiters' = [limiters EXCEPT ![tok] = lim]
     /\ hs' = [hs EXCEPT ![h].pc = "allow", ![h].lim = lim, ![h].fresh = TRUE]
     /\ created' = [created EXCEPT ![tok] = @ + 1]
  /\ mu' = Unlocked
  /\ UNCHANGED <<now, fpc, last, sent>>

\* .Allow(), the decision, and the reply or the forwarding (lines 93-100)
Allow(h) ==
  /\ hs[h].pc = "allow"
  /\ LET lim == hs[h].lim
         ok == AllowOK(heap[lim], now)
         hs2 == [hs EXCEPT ![h] = IdleH] IN
     /\ hs' = hs2
     /\ heap' = Collect([heap EXCEPT ![lim] = AllowState(heap[lim], now)],
                         limiters, hs2)
     /\ last' = Reply(hs[h].maxAge, ok, hs[h].b)
  /\ UNCHANGED <<now, mu, limiters, fpc, created, sent>>

\* case <-t.C: rl.mu.Lock()
FlushLock ==
  /\ fpc = "wait"
  /\ CanLock(mu)
  /\ mu' = FlusherId
  /\ fpc' = "locked"
  /\ UNCHANGED <<now, limiters, heap, hs, last, created, sent>>

\* faulty variant: the flush deletes one entry and keeps the others
FlushedPartly(m) == [m EXCEPT !["a"] = NoLim]
\* faulty variant: the flush keeps the entries
FlushedNothing(m) == m
\* make(map[string]*rate.Limiter)
Flushed(m) == EmptyMap

\* rl.limiters = make(map[string]*rate.Limiter); rl.mu.Unlock()
Flush ==
  /\ fpc = "locked"
  /\ limiters' = Flushed(limiters)
  /\ heap' = Collect(heap, limiters', hs)
  /\ hs' = [h \in Handlers |-> [hs[h] EXCEPT !.fresh = FALSE]]
  /\ created' = [t \in Tokens |-> 0]
  /\ mu' = Unlocked
  /\ fpc' = "wait"
  /\ UNCHANGED <<now, last, sent>>

\* a minute passes
Tick ==
  /\ now < MaxTime
  /\ now' = now + 1
  /\ UNCHANGED <<mu, limiters, heap, hs, fpc, last, created, sent>>

\* Requests arrive: R pairs each handler goroutine with the clients it serves,
\* B are the bodies sent and N the sizes of a Read.
Request(R, B, N) ==
  /\ \E r \in R, body \in B, n \in N : Start(r[1], r[2], body, n)
  /\ UNCHANGED sent

\* The steps of handler h and of the flusher, as the history variables see them.
StartStep(h) == hs[h].pc = "idle" /\ hs'[h].pc = "getlimiter"
AllowStep(h) == hs[h].pc = "allow" /\ hs'[h].pc = "idle"
CreateStep(h) == hs[h].pc = "create" /\ hs'[h].pc = "allow"
FlushStep == fpc = "locked" /\ fpc' = "wait"

\* History: which request is the first max_age == 0 request of its token to
\* start after the most recent flush.
ObserveFirstZero ==
  /\ zeroSeen' =
       IF FlushStep THEN [t \in Tokens |-> FALSE]
       ELSE [t \in Tokens |->
               \/ zeroSeen[t]
               \/ \E h \in Handlers :
                    StartStep(h) /\ hs'[h].remToken = t /\ hs'[h].maxAge = 0]
  /\ firstZero' =
       [h \in Handlers |->
          IF StartStep(h) THEN hs'[h].maxAge = 0 /\ ~zeroSeen[hs'[h].remToken]
          ELSE IF AllowStep(h) THEN FALSE
          ELSE firstZero[h]]
  /\ UNCHANGED <<acq, snap, epoch>>
\* No history but created, sent, fresh and used is recorded.
NoFirstZero == UNCHANGED <<zeroSeen, firstZero, acq, snap, epoch>>

ZeroBody == <<"{", "0", "}">>
FiveBody == <<"{", "5", "}">>

\* In every specification the program's steps come with the update of the
\* history variables zeroSeen and firstZero.

\* One request at a time, from every client, with every body.
OneHandler == {1}
Next ==
  \/ Request(OneHandler \X Cookies, Bodies, Chunks) /\ NoFirstZero
  \/ (\E h \in OneHandler : Lock(h)) /\ NoFirstZero
  \/ (\E h \in OneHandler : GetLimiterFound(h)) /\ NoFirstZero
  \/ (\E h \in OneHandler : GetLimiterCreate(h)) /\ NoFirstZero
  \/ (\E h \in OneHandler : Allow(h)) /\ NoFirstZero
  \/ FlushLock /\ NoFirstZero
  \/ Flush /\ NoFirstZero
  \/ Tick /\ NoFirstZero
Spec == Init /\ [][Next]_vars

\* Concurrent requests of one client.
ConcBodies == {<<"x">>, ZeroBody, FiveBody}
NextConc ==
  \/ Request(Handlers \X {"a", NoCookie}, ConcBodies, {MaxChunk}) /\ ObserveFirstZero
  \/ (\E h \in Handlers : Lock(h)) /\ ObserveFirstZero
  \/ (\E h \in Handlers : GetLimiterFound(h)) /\ ObserveFirstZero
  \/ (\E h \in Handlers : GetLimiterCreate(h)) /\ ObserveFirstZero
  \/ (\E h \in Handlers : Allow(h)) /\ ObserveFirstZero
  \/ FlushLock /\ ObserveFirstZero
  \/ Flush /\ ObserveFirstZero
  \/ Tick /\ ObserveFirstZero
SpecConc == Init /\ [][NextConc]_vars

\* Two clients at once, each on a handler goroutine of its own.
IsoClients == {<<1, "a">>, <<NumHandlers, "b">>}
IsoHandlers == {1, NumHandlers}
NextIso ==
  \/ Request(IsoClients, {ZeroBody, FiveBody}, {MaxChunk}) /\ NoFirstZero
  \/ (\E h \in IsoHandlers : Lock(h)) /\ NoFirstZero
  \/ (\E h \in IsoHandlers : GetLimiterFound(h)) /\ NoFirstZero
  \/ (\E h \in IsoHandlers : GetLimiterCreate(h)) /\ NoFirstZero
  \/ (\E h \in IsoHandlers : Allow(h)) /\ NoFirstZero
  \/ FlushLock /\ NoFirstZero
  \/ Flush /\ NoFirstZero
  \/ Tick /\ NoFirstZero
SpecIso == Init /\ [][NextIso]_vars

\* The end-to-end client: Burst + 1 requests {"max_age":0} and one request
\* {"max_age":5} of one identity, each sent when the one before is answered, with
\* no time passing.
E2ERequests == Burst + 2
E2EBody(k) == IF k <= Burst + 1 THEN ZeroBody ELSE FiveBody
AllIdle == \A h \in Handlers : hs[h].pc = "idle"
SendE2E ==
  /\ sent < E2ERequests
  /\ AllIdle
  /\ \E h \in Handlers, n \in Chunks : Start(h, "a", E2EBody(sent + 1), n)
  /\ sent' = sent + 1
NextE2E ==
  \/ SendE2E /\ NoFirstZero
  \/ (\E h \in Handlers : Lock(h)) /\ NoFirstZero
  \/ (\E h \in Handlers : GetLimiterFound(h)) /\ NoFirstZero
  \/ (\E h \in Handlers : GetLimiterCreate(h)) /\ NoFirstZero
  \/ (\E h \in Handlers : Allow(h)) /\ NoFirstZero
SpecE2E == Init /\ [][NextE2E]_vars

\* History: the acquisitions made on the limiter created last: when it was
\* created, how many were tried (counted up to Burst + 1), and for every minute
\* s how many have succeeded at s or later.
ObserveAcq ==
  /\ acq' =
       IF \E h \in Handlers : CreateStep(h)
       THEN [NoAcq EXCEPT !.born = now]
       ELSE IF \E h \in Handlers : AllowStep(h)
       THEN [born |-> acq.born,
             tried |-> Min(acq.tried + 1, Burst + 1),
             won |-> [s \in 0..MaxTime |->
                        IF s <= now /\ last'.allowed THEN acq.won[s] + 1 ELSE acq.won[s]]]
       ELSE acq
  /\ UNCHANGED <<zeroSeen, firstZero, snap, epoch>>

\* One limiter: the requests of one client, one at a time, at any minute, and
\* no flush.
NextBucket ==
  \/ Request(OneHandler \X {"a"}, {ZeroBody, FiveBody}, {MaxChunk}) /\ ObserveAcq
  \/ (\E h \in OneHandler : Lock(h)) /\ ObserveAcq
  \/ (\E h \in OneHandler : GetLimiterFound(h)) /\ ObserveAcq
  \/ (\E h \in OneHandler : GetLimiterCreate(h)) /\ ObserveAcq
  \/ (\E h \in OneHandler : Allow(h)) /\ ObserveAcq
  \/ Tick /\ ObserveAcq
SpecBucket == Init /\ [][NextBucket]_vars

\* History: the map as the task that holds the mutex found it when it locked.
ObserveSnap ==
  /\ snap' = IF mu' = Unlocked THEN EmptyMap
             ELSE IF mu' # mu THEN limiters
             ELSE snap
  /\ UNCHANGED <<zeroSeen, firstZero, acq, epoch>>

\* The goroutines under the scheduling the Go runtime gives them: a goroutine
\* that can take a step takes it (WF), and a goroutine waiting in Lock gets the
\* mutex (sync.Mutex hands it to a waiter that has waited long: SF); the ticker
\* of the flusher fires again and again.  Clients need not send requests.
LiveClients == {<<1, "a">>, <<1, NoCookie>>, <<NumHandlers, "b">>}
NextLive ==
  \/ Request(LiveClients, ConcBodies, {MaxChunk}) /\ ObserveSnap
  \/ (\E h \in IsoHandlers : Lock(h)) /\ ObserveSnap
  \/ (\E h \in IsoHandlers : GetLimiterFound(h)) /\ ObserveSnap
  \/ (\E h \in IsoHandlers : GetLimiterCreate(h)) /\ ObserveSnap
  \/ (\E h \in IsoHandlers : Allow(h)) /\ ObserveSnap
  \/ FlushLock /\ ObserveSnap
  \/ Flush /\ ObserveSnap
Fairness ==
  /\ \A h \in IsoHandlers :
       /\ SF_vars(Lock(h) /\ ObserveSnap)
       /\ WF_vars(GetLimiterFound(h) /\ ObserveSnap)
       /\ WF_vars(GetLimiterCreate(h) /\ ObserveSnap)
       /\ WF_vars(Allow(h) /\ ObserveSnap)
  /\ SF_vars(FlushLock /\ ObserveSnap)
  /\ WF_vars(Flush /\ ObserveSnap)
SpecLive == Init /\ [][NextLive]_vars /\ Fairness

\* History: since the last flush, at which minute it was, how many max_age == 0
\* requests of each identity were forwarded, and how many of these had obtained
\* their limiter before that flush.
ObserveEpoch ==
  /\ epoch' =
       IF FlushStep THEN [NoEpoch EXCEPT !.start = now]
       ELSE IF \E h \in Handlers : AllowStep(h) /\ hs[h].maxAge = 0 /\ last'.forwarded
       THEN LET h == CHOOSE x \in Handlers : AllowStep(x)
                t == hs[h].remToken IN
            [epoch EXCEPT !.fwd[t] = @ + 1,
                          !.stale[t] = IF hs[h].fresh THEN @ ELSE @ + 1]
       ELSE epoch
  /\ UNCHANGED <<zeroSeen, firstZero, acq, snap>>

\* Concurrent max_age == 0 requests of one client, the flusher and the clock.
NextEpoch ==
  \/ Request(Handlers \X {"a"}, {ZeroBody}, {MaxChunk}) /\ ObserveEpoch
  \/ (\E h \in Handlers : Lock(h)) /\ ObserveEpoch
  \/ (\E h \in Handlers : GetLimiterFound(h)) /\ ObserveEpoch
  \/ (\E h \in Handlers : GetLimiterCreate(h)) /\ ObserveEpoch
  \/ (\E h \in Handlers : Allow(h)) /\ ObserveEpoch
  \/ FlushLock /\ ObserveEpoch
  \/ Flush /\ ObserveEpoch
  \/ Tick /\ ObserveEpoch
SpecEpoch == Init /\ [][NextEpoch]_vars

\* The gate alone: one request at a time, from every client, with every body,
\* while the flusher waits for its ticker and no minute passes.
NextGate ==
  \/ Request(OneHandler \X Cookies, Bodies, Chunks) /\ NoFirstZero
  \/ (\E h \in OneHandler : Lock(h)) /\ NoFirstZero
  \/ (\E h \in OneHandler : GetLimiterFound(h)) /\ NoFirstZero
  \/ (\E h \in OneHandler : GetLimiterCreate(h)) /\ NoFirstZero
  \/ (\E h \in OneHandler : Allow(h)) /\ NoFirstZero
SpecGate == Init /\ [][NextGate]_vars

\* ------------------------------------------------------------------ claims
\* What a max_age == 0 request of token t would find: the tokens of t's limiter
\* after the refill up to now, a full bucket when t has none.
Quota(t) ==
  IF limiters[t] = NoLim THEN Burst ELSE Advance(heap[limiters[t]], now)
QuotaAfter(t) ==
  IF limiters'[t] = NoLim THEN Burst ELSE Advance(heap'[limiters'[t]], now')

\* C1 (as claimed): a request with max_age != 0 consumes no token: its Allow
\* step leaves the remaining quota of its identity as it was.
C1_OverrideConsumesNothing ==
  [][\A h \in Handlers :
       (AllowStep(h) /\ hs[h].maxAge # 0)
         => QuotaAfter(hs[h].remToken) = Quota(hs[h].remToken)]_vars

\* C2: a request with a cookie and a parseable body with max_age != 0 is
\* forwarded and never answered with the rate-limit payload, whatever the bucket.
C2_OverrideForwarded ==
  (last.cookie /\ last.parsed /\ last.maxAge # 0)
    => (last.forwarded /\ last.resp # RLPayload)
C2_Witness ==
  last.parsed /\ last.maxAge # 0 /\ ~last.allowed /\ last.forwarded

\* C4: with a cookie and a parseable body, the request is answered with
\* RLPayload and not forwarded exactly when the acquisition failed and
\* max_age = 0; in every other case it is forwarded.
C4_RejectedIff ==
  last.parsed =>
    /\ (last.resp = RLPayload /\ ~last.forwarded) <=> (~last.allowed /\ last.maxAge = 0)
    /\ last.forwarded <=> ~(~last.allowed /\ last.maxAge = 0)
    /\ last.forwarded => last.resp = NoBody
C4_Witness ==
  last.parsed /\ last.resp = RLPayload /\ ~last.forwarded /\ ~last.allowed

\* C5 (as claimed): the body handed to the forwarding step is the complete
\* original request body.
C5_BodyIntact ==
  [][\A h \in Handlers :
       (AllowStep(h) /\ last'.forwarded) => last'.fwdBody = hs[h].body]_vars

\* C6: a step of a request of one identity changes neither the registry entry
\* nor the remaining quota of any other identity.
C6_Isolation ==
  [][\A h \in Handlers : \A t \in Tokens :
       (hs[h].pc # "idle" /\ hs'[h].pc # hs[h].pc /\ hs[h].remToken # t)
         => (limiters'[t] = limiters[t] /\ QuotaAfter(t) = Quota(t))]_vars
C6_Witness ==
  /\ limiters["a"] # NoLim /\ Quota("a") = 0
  /\ limiters["b"] # NoLim /\ heap[limiters["b"]].used /\ Quota("b") = Burst - 1

\* C10: a request without the cookie is answered "No cookie found" and is not
\* forwarded.
C10_MissingCookie ==
  (~last.cookie /\ last # NoExchange)
    => (last.resp = NoCookieMsg /\ ~last.forwarded /\ last.fwdBody = <<>>)
C10_Witness ==
  /\ last.resp = NoCookieMsg /\ ~last.cookie /\ ~last.forwarded
  /\ \E t \in Tokens : limiters[t] # NoLim /\ Quota(t) = 0

\* C3: of Burst + 2 requests of a fresh identity sent with no time passing, the
\* first Burst, with max_age 0, are forwarded; the next is answered RLPayload
\* with Content-Type application/json and not forwarded; the last, with
\* max_age 5, is forwarded although the bucket is empty.
C3_EndToEnd ==
  (sent >= 1 /\ AllIdle) =>
    /\ sent <= Burst =>
         (last.forwarded /\ last.fwdBody = ZeroBody /\ last.resp = NoBody /\ last.allowed)
    /\ sent = Burst + 1 =>
         (last.resp = RLPayload /\ last.ctype = JSONType /\ ~last.forwarded)
    /\ sent = Burst + 2 =>
         (last.forwarded /\ last.fwdBody = FiveBody /\ ~last.allowed /\ last.resp = NoBody)
C3_Witness ==
  sent = Burst + 2 /\ AllIdle /\ last.forwarded /\ last.maxAge = 5


\* C7 (as claimed): a flush leaves the mapping empty, and the first
\* max_age == 0 request of an identity that starts after it is admitted.
C7_FirstZeroRequestAdmitted ==
  [][/\ FlushStep => limiters' = EmptyMap
     /\ \A h \in Handlers :
          (AllowStep(h) /\ firstZero[h]) => (last'.allowed /\ last'.forwarded)]_vars
\* C7 (amended): a flush leaves the mapping empty and every identity with a
\* full quota of Burst tokens; a limiter created afterwards holds Burst tokens,
\* and the first acquisition made on a limiter finds them all and succeeds.
C7_FlushResets ==
  [][/\ FlushStep => (limiters' = EmptyMap /\ \A t \in Tokens : QuotaAfter(t) = Burst)
     /\ \A h \in Handlers :
          /\ CreateStep(h) => (heap'[hs'[h].lim].tokens = Burst /\ ~heap'[hs'[h].lim].used)
          /\ (AllowStep(h) /\ ~heap[hs[h].lim].used)
               => (Advance(heap[hs[h].lim], now) = Burst /\ last'.allowed /\ last'.forwarded)]_vars
\* An identity exhausted before the flush (a request still holds its old, empty
\* limiter) has a new limiter, whose first acquisition took 1 of Burst tokens.
C7_Witness ==
  \E h \in Handlers :
    /\ hs[h].pc = "allow" /\ ~hs[h].fresh
    /\ heap[hs[h].lim].used /\ heap[hs[h].lim].tokens = 0
    /\ limiters[hs[h].remToken] \notin {NoLim, hs[h].lim}
    /\ heap[limiters[hs[h].remToken]].used
    /\ heap[limiters[hs[h].remToken]].tokens = Burst - 1
    /\ last.allowed /\ last.maxAge = 0

\* C8: between two flushes at most one limiter is created per identity, and
\* every GetLimiter call of the epoch returns the limiter the map holds.
C8_OneLimiterPerEpoch ==
  /\ \A t \in Tokens : created[t] <= 1 /\ (created[t] = 1 <=> limiters[t] # NoLim)
  /\ \A h \in Handlers :
       (hs[h].pc = "allow" /\ hs[h].fresh) => hs[h].lim = limiters[hs[h].remToken]
C8_Witness ==
  /\ created["a"] = 1
  /\ \A h \in Handlers :
       hs[h].pc = "allow" /\ hs[h].fresh /\ hs[h].remToken = "a" /\ hs[h].lim = limiters["a"]

\* C9 (as claimed): no two in-flight requests of one identity hold different
\* limiter instances, a flush between GetLimiter and Allow included.
C9_NeverTwoInstances ==
  \A h1, h2 \in Handlers :
    (hs[h1].pc = "allow" /\ hs[h2].pc = "allow" /\ hs[h1].remToken = hs[h2].remToken)
      => hs[h1].lim = hs[h2].lim
\* C9 (amended): no two in-flight requests of one identity that both obtained
\* their limiter since the most recent flush hold different limiter instances.
C9_SameEpochSameInstance ==
  \A h1, h2 \in Handlers :
    (/\ hs[h1].pc = "allow" /\ hs[h2].pc = "allow"
     /\ hs[h1].remToken = hs[h2].remToken
     /\ hs[h1].fresh /\ hs[h2].fresh)
      => hs[h1].lim = hs[h2].lim
C9_Witness ==
  \E h1, h2 \in Handlers :
    /\ h1 # h2
    /\ hs[h1].pc = "allow" /\ hs[h2].pc = "allow"
    /\ hs[h1].remToken = hs[h2].remToken
    /\ hs[h1].fresh /\ hs[h2].fresh
    /\ hs[h1].lim = hs[h2].lim
    /\ heap[hs[h1].lim].tokens = 0

\* A body holds a JSON value of the expected shape when, white space aside, it
\* starts with an object that has no member or the member max_age.
Strip(body) == SelectSeq(body, LAMBDA c : c # " ")
Objects == {<<"{", "}">>, <<"{", "0", "}">>, <<"{", "5", "}">>}
HasJSONValue(body) ==
  \E k \in 0..Len(Strip(body)) : SubSeq(Strip(body), 1, k) \in Objects
Malformed == {body \in Bodies : ~HasJSONValue(body)}

\* C11: a request with the cookie whose body holds no JSON value of the expected
\* shape (the empty body included) is answered with the parse error message, is
\* not forwarded, and its handler is done, whatever the size of a Read.
C11_MalformedRejected ==
  [][\A h \in Handlers, c \in Tokens, body \in Malformed, n \in Chunks :
       (hs[h].pc = "idle" /\ Start(h, c, body, n))
         => /\ last' = ParseErrorReply
            /\ last'.resp = ParseErrMsg /\ ~last'.forwarded /\ last'.fwdBody = <<>>
            /\ hs'[h].pc = "idle"]_vars
C11_Witness ==
  /\ last.cookie /\ ~last.parsed /\ last.resp = ParseErrMsg /\ ~last.forwarded
  /\ \E t \in Tokens : limiters[t] # NoLim /\ Quota(t) < Burst

\* C12: on one limiter the acquisitions that succeed in any window of minutes
\* s..now number at most Burst + RatePerMinute * (now - s); with no time elapsed
\* since the limiter was made, the first Burst attempts succeed and every
\* further one fails.
C12_BucketBound ==
  /\ \A s \in 0..now : acq.won[s] <= Burst + RatePerMinute * (now - s)
  /\ (limiters["a"] # NoLim /\ now = acq.born) => acq.won[acq.born] = Min(acq.tried, Burst)
\* Burst acquisitions in minute 0 and one more, the only one, in minute 1.
C12_Witness ==
  /\ now = 1 /\ acq.born = 0 /\ acq.tried = Burst + 1
  /\ acq.won[0] = Burst + 1 /\ acq.won[1] = 1
  /\ ~last.allowed /\ last.parsed

\* The outcomes an exchange shows.
Outcomes(e) ==
  {o \in {"NoIdentity", "ParseError", "RateLimited", "Forward"} :
     \/ o = "NoIdentity" /\ e.resp = NoCookieMsg
     \/ o = "ParseError" /\ e.resp = ParseErrMsg
     \/ o = "RateLimited" /\ e.resp = RLPayload
     \/ o = "Forward" /\ e.forwarded}
InFlight(h) == hs[h].pc # "idle"

\* C13: a completed request shows exactly one of the outcomes NoIdentity,
\* ParseError, RateLimited and Forward, and under fair scheduling every request
\* in flight reaches the end of its handler.
C13_OneOutcome ==
  /\ [](last # NoExchange => Cardinality(Outcomes(last)) = 1)
  /\ \A h \in Handlers : InFlight(h) ~> ~InFlight(h)
\* A request was rate limited while the other handler is inside GetLimiter.
C13_Witness ==
  /\ Outcomes(last) = {"RateLimited"}
  /\ \E h \in Handlers : hs[h].pc = "locked"

\* The step on which handler h returns from GetLimiter.
ReturnStep(h) == hs[h].pc \in {"locked", "create"} /\ hs'[h].pc = "allow"

\* C14: a flush and a GetLimiter take effect one after the other, each as one
\* step on the map it found when it locked: while a task holds the mutex nobody
\* else changes the map; GetLimiter leaves the map it found when the identity
\* is there, and adds to it one entry with a fresh limiter when it is not, and
\* returns the limiter the map then holds; a flush leaves the empty map; and the
\* map changes in no other way.  So after a flush and a GetLimiter for X that
\* race, the map is empty (GetLimiter first) or holds X with a fresh limiter and
\* nothing else (flush first).
C14_Linearizable ==
  /\ [](mu # Unlocked => limiters = snap)
  /\ [][/\ \A h \in Handlers :
            ReturnStep(h) =>
              LET tok == hs[h].remToken
                  lim == hs'[h].lim IN
              /\ limiters'[tok] = lim /\ lim # NoLim
              /\ IF snap[tok] # NoLim
                 THEN limiters' = snap
                 ELSE /\ limiters' = [snap EXCEPT ![tok] = lim]
                      /\ ~Referenced(lim, limiters, hs)
                      /\ heap'[lim] = NewLimiter(now)
        /\ (FlushStep => limiters' = EmptyMap)
        /\ (limiters' # limiters => (FlushStep \/ \E h \in Handlers : CreateStep(h)))]_vars
\* A request waits in Lock while the flusher, inside its critical section, is
\* about to drop a map that holds both identities.
C14_Witness ==
  /\ fpc = "locked" /\ mu = FlusherId
  /\ \E h \in Handlers : hs[h].pc = "getlimiter"
  /\ \A t \in Tokens : limiters[t] # NoLim /\ heap[limiters[t]].used
  /\ snap = limiters

\* The tasks inside a critical section of rl.mu, and the handlers inside
\* GetLimiter.
InCritical ==
  {h \in Handlers : hs[h].pc \in {"locked", "create"}}
    \cup (IF fpc = "locked" THEN {FlusherId} ELSE {})
InGetLimiter(h) == hs[h].pc \in {"getlimiter", "locked", "create"}

\* C15: at most one task is inside a critical section, and it is the one that
\* holds the mutex; GetLimiter and the flush unlock on the step that leaves the
\* critical section; some task can always take a step; and under fair scheduling
\* every GetLimiter call returns and the flusher flushes again and again.
C15_LockDiscipline ==
  /\ [](/\ Cardinality(InCritical) <= 1
        /\ InCritical = (IF mu = Unlocked THEN {} ELSE {mu})
        /\ ENABLED (\/ FlushLock \/ Flush
                    \/ \E h \in Handlers : GetLimiterFound(h) \/ GetLimiterCreate(h)))
  /\ [][/\ \A h \in Handlers : ReturnStep(h) => (mu = h /\ mu' = Unlocked)
        /\ FlushStep => (mu = FlusherId /\ mu' = Unlocked)]_vars
  /\ \A h \in Handlers : InGetLimiter(h) ~> hs[h].pc = "allow"
  /\ []<>(fpc = "locked") /\ []<>(limiters = EmptyMap /\ fpc = "wait")
\* One handler is inside GetLimiter, about to insert; the other waits in Lock,
\* and so does the flusher.
C15_Witness ==
  /\ \E h1, h2 \in Handlers :
       /\ hs[h1].pc = "create" /\ mu = h1
       /\ hs[h2].pc = "getlimiter"
  /\ fpc = "wait"
  /\ \E t \in Tokens : limiters[t] # NoLim

\* C16: every limiter holds between 0 and Burst tokens, before and after the
\* refill for the time elapsed since its last update, and the refill is
\* min(Burst, tokens + elapsed * rate).
C16_TokenBound ==
  \A i \in Inst :
    /\ heap[i].tokens \in 0..Burst
    /\ heap[i].last \in 0..now
    /\ Advance(heap[i], now) \in 0..Burst
    /\ Advance(heap[i], now) =
         Min(Burst, heap[i].tokens + (now - heap[i].last) * RatePerMinute)
\* A full bucket that a minute has passed over, and an empty one.
C16_Witness ==
  /\ \E i \in Inst :
       /\ Referenced(i, limiters, hs)
       /\ heap[i].tokens = Burst /\ heap[i].last < now
  /\ \E j \in Inst : heap[j].used /\ heap[j].tokens = 0

\* C17: an acquisition that is denied leaves the token count of its limiter as
\* it was, the stored count and the count after the refill alike; one that
\* succeeds takes exactly one token from the refilled count.
C17_DeniedTakesNothing ==
  [][\A h \in Handlers :
       (AllowStep(h) /\ Referenced(hs[h].lim, limiters', hs')) =>
         LET lim == hs[h].lim
             before == Advance(heap[lim], now)
             after == Advance(heap'[lim], now') IN
         /\ last'.allowed => (after = before - 1 /\ heap'[lim].tokens = before - 1)
         /\ ~last'.allowed => (after = before /\ heap'[lim].tokens = heap[lim].tokens)
         /\ last'.allowed <=> before >= 1]_vars
\* In minute 1 the one refilled token has been taken and an acquisition denied.
C17_Witness ==
  /\ now = 1 /\ limiters["a"] # NoLim
  /\ heap[limiters["a"]].last = 1 /\ heap[limiters["a"]].tokens = 0
  /\ last.parsed /\ ~last.allowed

\* C18: an entry of the map stays mapped to the same limiter on every step but
\* a flush; a flush removes every entry at once; so between two flushes the set
\* of identities in the map only grows.
C18_NoEviction ==
  [][/\ \A t \in Tokens :
          (limiters[t] # NoLim /\ limiters'[t] # limiters[t])
            => (FlushStep /\ limiters' = EmptyMap)
     /\ FlushStep => limiters' = EmptyMap
     /\ ~FlushStep =>
          {t \in Tokens : limiters[t] # NoLim} \subseteq {t \in Tokens : limiters'[t] # NoLim}]_vars
\* The map has grown from one entry to two: the entry of "a", whose bucket is
\* empty by now, has stayed while "b" was inserted, and a request of "a" arrives.
C18_Witness ==
  /\ limiters["a"] # NoLim /\ heap[limiters["a"]].tokens = 0
  /\ limiters["b"] # NoLim /\ ~heap[limiters["b"]].used
  /\ limiters["a"] # limiters["b"]
  /\ hs[NumHandlers].pc = "allow" /\ hs[NumHandlers].fresh
  /\ hs[1].pc = "getlimiter"

\* C19: a request rejected for its missing cookie or for its body changes
\* neither the map nor any limiter nor the quota of any identity, and does not
\* reach GetLimiter: a handler at GetLimiter or beyond has a cookie and a body
\* that holds a JSON value, and only such a handler changes the map or a limiter.
C19_EarlyRejectTouchesNothing ==
  /\ [](\A h \in Handlers :
          InFlight(h) => (hs[h].remToken \in Tokens /\ HasJSONValue(hs[h].body)))
  /\ [][/\ \A h \in Handlers, c \in Cookies, body \in Bodies, n \in Chunks :
            (/\ hs[h].pc = "idle"
             /\ c = NoCookie \/ body \in Malformed
             /\ Start(h, c, body, n))
              => /\ hs'[h].pc = "idle"
                 /\ limiters' = limiters /\ heap' = heap /\ created' = created
                 /\ \A t \in Tokens : QuotaAfter(t) = Quota(t)
        /\ (limiters' # limiters \/ heap' # heap) =>
             \E h \in Handlers : hs[h].pc \in {"create", "allow"}]_vars
\* A request was rejected early while the bucket of "a" is empty and the bucket
\* of "b" has one token less than the burst.
C19_Witness ==
  /\ last \in {MissingCookieReply, ParseErrorReply}
  /\ limiters["a"] # NoLim /\ heap[limiters["a"]].tokens = 0
  /\ limiters["b"] # NoLim /\ heap[limiters["b"]].tokens = Burst - 1
  /\ AllIdle

\* The minutes of the epoch so far.
EpochMinutes == now - epoch.start

\* C20 (as claimed): the max_age == 0 requests of an identity forwarded since
\* the last flush number at most Burst + m, m the minutes since that flush,
\* the requests that obtained their limiter before the flush included.
C20_EpochQuota ==
  \A t \in Tokens : epoch.fwd[t] <= Burst + RatePerMinute * EpochMinutes
\* C20 (amended): those among them that obtained their limiter since the flush
\* number at most Burst + m; the others acquire on a limiter the flush has
\* dropped, one request each, and come on top.
C20_EpochQuotaOwnLimiter ==
  \A t \in Tokens :
    /\ epoch.stale[t] <= epoch.fwd[t]
    /\ epoch.fwd[t] - epoch.stale[t] <= Burst + RatePerMinute * EpochMinutes
    /\ epoch.stale[t] <= NumHandlers
\* With no minute passed since the flush, the limiter of the epoch has given
\* out its Burst tokens, and one more request was forwarded on the limiter it
\* had obtained before the flush.
C20_Witness ==
  /\ EpochMinutes = 0
  /\ epoch.stale["a"] = 1 /\ epoch.fwd["a"] = Burst + 1
  /\ limiters["a"] # NoLim /\ heap[limiters["a"]].tokens = 0

====
